---------------------------- MODULE Spec2Model ----------------------------
(***************************************************************************)
(* Model of package limiter: the token bucket (limiter/token_bucket.go)    *)
(* and the leaky bucket (leaky bucket source), one limiter instance per    *)
(* run, with its background goroutine, its mutex, its channels and any     *)
(* number of concurrent callers.                                           *)
(***************************************************************************)
EXTENDS Integers, Sequences, FiniteSets, TLC

(* ------------------------------ bounds -------------------------------- *)
NumCallers == 2
MaxCapacity == 2
MaxLeakCount == 2
MaxTicks == 1
MaxCalls == 3

Callers == 1..NumCallers

VARIABLES
    limiter,        \* which constructor built the instance
    capacity,       \* capacity field (both types)
    tokens,         \* TokenBucket.tokens
    done,           \* TokenBucket.done channel: "open" / "closed"
    queue,          \* leakyBucket.queue
    stopCh,         \* leakyBucket.stopCh channel: "open" / "closed"
    stopped,        \* leakyBucket.stopped
    leakCount,      \* leakyBucket.leakCount
    mu,             \* sync.Mutex: TRUE when locked
    tickerC,        \* the driver ticker's channel (buffer 1): TRUE when a tick is pending
    tickerStopped,  \* ticker.Stop() has been called on the driver ticker
    bg,             \* position of the background goroutine (refill / startLeaking)
    pc,             \* position of each caller
    op,             \* the operation each caller invoked last
    ret,            \* what that operation returned ("none" while it runs)
    size,           \* integer returned by CurrentSize / Capacity
    ctxDone,        \* ctx.Done() of the context passed to Acquire is closed
    panicked,       \* a goroutine panicked (the process is dead)
    ticks,          \* history: ticks processed by the background goroutine
    granted,        \* history: successful TryAcquire / Allow bodies
    calls,          \* history: operations invoked so far
    stopReturned,   \* history: some Stop call has returned
    afterStop       \* history: the caller's operation was invoked after a Stop returned

vars == <<limiter, capacity, tokens, done, queue, stopCh, stopped, leakCount,
          mu, tickerC, tickerStopped, bg, pc, op, ret, size, ctxDone, panicked,
          ticks, granted, calls, stopReturned, afterStop>>

tbVars == <<tokens, done>>
lbVars == <<queue, stopCh, stopped>>
cfgVars == <<limiter, capacity, leakCount>>

Min(a, b) == IF a < b THEN a ELSE b

(* --------------------------- construction ----------------------------- *)
\* mutant: the token bucket starts empty
NewTokenBucketEmpty(cap) ==
    /\ limiter = "TokenBucket"
    /\ capacity = cap
    /\ tokens = 0
    /\ done = "open"
    /\ queue = << >>
    /\ stopCh = "open"
    /\ stopped = FALSE
    /\ leakCount = 1

\* NewTokenBucket: tokens = capacity, done open, ticker running, refill started
NewTokenBucket(cap) ==
    /\ limiter = "TokenBucket"
    /\ capacity = cap
    /\ tokens = cap
    /\ done = "open"
    /\ queue = << >>
    /\ stopCh = "open"
    /\ stopped = FALSE
    /\ leakCount = 1

\* NewLeakyBucket: empty queue, stopCh open, stopped false, startLeaking started
NewLeakyBucket(cap, lc) ==
    /\ limiter = "leakyBucket"
    /\ capacity = cap
    /\ queue = << >>
    /\ stopCh = "open"
    /\ stopped = FALSE
    /\ leakCount = lc
    /\ tokens = 0
    /\ done = "open"

Init ==
    /\ \/ \E cap \in 0..MaxCapacity : NewTokenBucket(cap)
       \/ \E cap \in 0..MaxCapacity, lc \in 0..MaxLeakCount : NewLeakyBucket(cap, lc)
    /\ mu = FALSE
    /\ tickerC = FALSE
    /\ tickerStopped = FALSE
    /\ bg = "select"
    /\ pc = [c \in Callers |-> "idle"]
    /\ op = [c \in Callers |-> "none"]
    /\ ret = [c \in Callers |-> "none"]
    /\ size = [c \in Callers |-> 0]
    /\ ctxDone = [c \in Callers |-> FALSE]
    /\ panicked = FALSE
    /\ ticks = 0
    /\ granted = 0
    /\ calls = 0
    /\ stopReturned = FALSE
    /\ afterStop = [c \in Callers |-> FALSE]

(* ------------------------- calling an operation ----------------------- *)
\* caller c invokes operation o and stands at its first statement p
Invoke(c, o, p) ==
    /\ ~panicked
    /\ pc[c] = "idle"
    /\ calls < MaxCalls
    /\ calls' = calls + 1
    /\ pc' = [pc EXCEPT ![c] = p]
    /\ op' = [op EXCEPT ![c] = o]
    /\ ret' = [ret EXCEPT ![c] = "none"]
    /\ size' = [size EXCEPT ![c] = 0]
    /\ afterStop' = [afterStop EXCEPT ![c] = stopReturned]

\* caller c returns r from its operation
Return(c, r) ==
    /\ pc' = [pc EXCEPT ![c] = "idle"]
    /\ ret' = [ret EXCEPT ![c] = r]

\* caller c invokes operation o, whose first statement is mu.Lock(), and gets
\* the mutex (a caller still waiting for the mutex has changed nothing yet)
InvokeLock(c, o, p) ==
    /\ Invoke(c, o, p)
    /\ mu = FALSE
    /\ mu' = TRUE

(* ------------------------ the driver's ticker ------------------------- *)
\* ticks the background goroutine has received and not yet processed
InFlight == IF bg \in {"lock", "body"} THEN 1 ELSE 0

\* the runtime timer sends on ticker.C unless the ticker is stopped; a tick
\* that finds the one-slot channel full is dropped (at most MaxTicks are sent)
TickerFire ==
    /\ ~panicked
    /\ ~tickerStopped
    /\ ~tickerC
    /\ ticks + InFlight < MaxTicks
    /\ tickerC' = TRUE
    /\ UNCHANGED <<cfgVars, tbVars, lbVars, mu, tickerStopped, bg, pc, op, ret, size,
                   ctxDone, panicked, ticks, granted, calls, stopReturned, afterStop>>

(* --------------------------- token bucket ----------------------------- *)
\* mutant: the refill forgets the capacity test
RefillTokensUncapped(t, cap) == t + 1

\* mutant: the refill fills the bucket up
RefillTokensFull(t, cap) == IF t < cap THEN cap ELSE t

\* mutant: the refill adds nothing
RefillTokensNone(t, cap) == t

\* refill: if tb.tokens < tb.capacity { tb.tokens++ }
RefillTokens(t, cap) == IF t < cap THEN t + 1 ELSE t

\* refill: case <-tb.ticker.C
RefillRecvTick ==
    /\ ~panicked
    /\ limiter = "TokenBucket"
    /\ bg = "select"
    /\ tickerC
    /\ tickerC' = FALSE
    /\ bg' = "lock"
    /\ UNCHANGED <<cfgVars, tbVars, lbVars, mu, tickerStopped, pc, op, ret, size,
                   ctxDone, panicked, ticks, granted, calls, stopReturned, afterStop>>

\* refill: tb.mu.Lock()
RefillLock ==
    /\ ~panicked
    /\ limiter = "TokenBucket"
    /\ bg = "lock"
    /\ mu = FALSE
    /\ mu' = TRUE
    /\ bg' = "body"
    /\ UNCHANGED <<cfgVars, tbVars, lbVars, tickerC, tickerStopped, pc, op, ret, size,
                   ctxDone, panicked, ticks, granted, calls, stopReturned, afterStop>>

\* refill: the increment and tb.mu.Unlock()
RefillBody ==
    /\ ~panicked
    /\ limiter = "TokenBucket"
    /\ bg = "body"
    /\ tokens' = RefillTokens(tokens, capacity)
    /\ mu' = FALSE
    /\ ticks' = ticks + 1
    /\ bg' = "select"
    /\ UNCHANGED <<cfgVars, done, lbVars, tickerC, tickerStopped, pc, op, ret, size,
                   ctxDone, panicked, granted, calls, stopReturned, afterStop>>

\* refill: case <-tb.done: return
RefillRecvDone ==
    /\ ~panicked
    /\ limiter = "TokenBucket"
    /\ bg = "select"
    /\ done = "closed"
    /\ bg' = "exited"
    /\ UNCHANGED <<cfgVars, tbVars, lbVars, mu, tickerC, tickerStopped, pc, op, ret, size,
                   ctxDone, panicked, ticks, granted, calls, stopReturned, afterStop>>

\* mutant: the test is off by one
TryAcquireOkOffByOne(t) == t >= 0

\* TryAcquire: the test tb.tokens > 0
TryAcquireOk(t) == t > 0

\* mutant: the decrement is not guarded by the test
TryAcquireTokensUnguarded(t) == t - 1

\* mutant: a successful TryAcquire forgets the decrement
TryAcquireTokensKeep(t) == t

\* TryAcquire: the tokens left by the call
TryAcquireTokens(t) == IF TryAcquireOk(t) THEN t - 1 ELSE t

\* the critical section of TryAcquire and the deferred Unlock
TryAcquireBody ==
    /\ tokens' = TryAcquireTokens(tokens)
    /\ granted' = IF TryAcquireOk(tokens) THEN granted + 1 ELSE granted
    /\ mu' = FALSE

\* a caller invokes tb.TryAcquire()
TryAcquireCall(c) ==
    /\ limiter = "TokenBucket"
    /\ InvokeLock(c, "TryAcquire", "TryAcquire_Body")
    /\ UNCHANGED <<cfgVars, tbVars, lbVars, tickerC, tickerStopped, bg,
                   ctxDone, panicked, ticks, granted, stopReturned>>

\* TryAcquire: test, decrement, unlock, return
TryAcquire(c) ==
    /\ ~panicked
    /\ pc[c] = "TryAcquire_Body"
    /\ TryAcquireBody
    /\ Return(c, IF TryAcquireOk(tokens) THEN "true" ELSE "false")
    /\ UNCHANGED <<cfgVars, done, lbVars, tickerC, tickerStopped, bg, op, size,
                   ctxDone, panicked, ticks, calls, stopReturned, afterStop>>

\* a caller invokes tb.Acquire(ctx); the context may already be cancelled
AcquireCall(c) ==
    /\ limiter = "TokenBucket"
    /\ InvokeLock(c, "Acquire", "Acquire_Body")
    /\ \E cancelled \in BOOLEAN : ctxDone' = [ctxDone EXCEPT ![c] = cancelled]
    /\ UNCHANGED <<cfgVars, tbVars, lbVars, tickerC, tickerStopped, bg,
                   panicked, ticks, granted, stopReturned>>

\* the caller's context is cancelled or times out while Acquire runs
CtxCancel(c) ==
    /\ ~panicked
    /\ op[c] = "Acquire"
    /\ pc[c] # "idle"
    /\ ~ctxDone[c]
    /\ ctxDone' = [ctxDone EXCEPT ![c] = TRUE]
    /\ UNCHANGED <<cfgVars, tbVars, lbVars, mu, tickerC, tickerStopped, bg, pc, op, ret,
                   size, panicked, ticks, granted, calls, stopReturned, afterStop>>

\* Acquire: if tb.TryAcquire() { return nil }, else start the poll ticker
AcquireFirst(c) ==
    /\ ~panicked
    /\ pc[c] = "Acquire_Body"
    /\ TryAcquireBody
    /\ IF TryAcquireOk(tokens)
          THEN Return(c, "nil") /\ ctxDone' = [ctxDone EXCEPT ![c] = FALSE]
          ELSE pc' = [pc EXCEPT ![c] = "Acquire_Select"] /\ UNCHANGED <<ret, ctxDone>>
    /\ UNCHANGED <<cfgVars, done, lbVars, tickerC, tickerStopped, bg, op, size,
                   panicked, ticks, calls, stopReturned, afterStop>>

\* mutant: the ctx.Done() case returns no error
AcquireCtxDoneNil(c) ==
    /\ ~panicked
    /\ pc[c] = "Acquire_Select"
    /\ ctxDone[c]
    /\ Return(c, "nil")
    /\ ctxDone' = [ctxDone EXCEPT ![c] = FALSE]
    /\ UNCHANGED <<cfgVars, tbVars, lbVars, mu, tickerC, tickerStopped, bg, op, size,
                   panicked, ticks, granted, calls, stopReturned, afterStop>>

\* Acquire: case <-ctx.Done(): return ErrContextTimeout
AcquireCtxDone(c) ==
    /\ ~panicked
    /\ pc[c] = "Acquire_Select"
    /\ ctxDone[c]
    /\ Return(c, "ErrContextTimeout")
    /\ ctxDone' = [ctxDone EXCEPT ![c] = FALSE]
    /\ UNCHANGED <<cfgVars, tbVars, lbVars, mu, tickerC, tickerStopped, bg, op, size,
                   panicked, ticks, granted, calls, stopReturned, afterStop>>

\* Acquire: case <-t.C (the poll ticker of this call fires and is received)
AcquirePollTick(c) ==
    /\ ~panicked
    /\ pc[c] = "Acquire_Select"
    /\ pc' = [pc EXCEPT ![c] = "Acquire_RetryLock"]
    /\ UNCHANGED <<cfgVars, tbVars, lbVars, mu, tickerC, tickerStopped, bg, op, ret, size,
                   ctxDone, panicked, ticks, granted, calls, stopReturned, afterStop>>

\* Acquire: tb.mu.Lock() of a retry
AcquireRetryLock(c) ==
    /\ ~panicked
    /\ pc[c] = "Acquire_RetryLock"
    /\ mu = FALSE
    /\ mu' = TRUE
    /\ pc' = [pc EXCEPT ![c] = "Acquire_RetryBody"]
    /\ UNCHANGED <<cfgVars, tbVars, lbVars, tickerC, tickerStopped, bg, op, ret, size,
                   ctxDone, panicked, ticks, granted, calls, stopReturned, afterStop>>

\* mutant: the retry returns nil without looking at the result of TryAcquire
AcquireRetryBlind(c) ==
    /\ ~panicked
    /\ pc[c] = "Acquire_RetryBody"
    /\ TryAcquireBody
    /\ Return(c, "nil")
    /\ ctxDone' = [ctxDone EXCEPT ![c] = FALSE]
    /\ UNCHANGED <<cfgVars, done, lbVars, tickerC, tickerStopped, bg, op, size,
                   panicked, ticks, calls, stopReturned, afterStop>>

\* Acquire: if tb.TryAcquire() { return nil }, else back to the select
AcquireRetry(c) ==
    /\ ~panicked
    /\ pc[c] = "Acquire_RetryBody"
    /\ TryAcquireBody
    /\ IF TryAcquireOk(tokens)
          THEN Return(c, "nil") /\ ctxDone' = [ctxDone EXCEPT ![c] = FALSE]
          ELSE pc' = [pc EXCEPT ![c] = "Acquire_Select"] /\ UNCHANGED <<ret, ctxDone>>
    /\ UNCHANGED <<cfgVars, done, lbVars, tickerC, tickerStopped, bg, op, size,
                   panicked, ticks, calls, stopReturned, afterStop>>

\* close(ch) of a closed channel panics
ClosePanics(ch) == ch = "closed"

\* mutant: close(ch) leaves the channel open
CloseChanNoop(ch) == ch

\* close(ch) of an open channel closes it
CloseChan(ch) == IF ch = "open" THEN "closed" ELSE ch

\* a caller invokes tb.Stop(): close(tb.done)
TBStopClose(c) ==
    /\ limiter = "TokenBucket"
    /\ Invoke(c, "Stop", "Stop_Ticker")
    /\ done' = CloseChan(done)
    /\ panicked' = ClosePanics(done)
    /\ UNCHANGED <<cfgVars, tokens, lbVars, mu, tickerC, tickerStopped, bg,
                   ctxDone, ticks, granted, stopReturned>>

\* Stop: tb.ticker.Stop() and return
TBStopTicker(c) ==
    /\ ~panicked
    /\ pc[c] = "Stop_Ticker"
    /\ tickerStopped' = TRUE
    /\ stopReturned' = TRUE
    /\ Return(c, "returned")
    /\ UNCHANGED <<cfgVars, tbVars, lbVars, mu, tickerC, bg, op, size,
                   ctxDone, panicked, ticks, granted, calls, afterStop>>

TBNext ==
    \/ RefillRecvTick
    \/ RefillLock
    \/ RefillBody
    \/ RefillRecvDone
    \/ \E c \in Callers :
        \/ TryAcquireCall(c)
        \/ TryAcquire(c)
        \/ AcquireCall(c)
        \/ CtxCancel(c)
        \/ AcquireFirst(c)
        \/ AcquireCtxDone(c)
        \/ AcquirePollTick(c)
        \/ AcquireRetryLock(c)
        \/ AcquireRetry(c)
        \/ TBStopClose(c)
        \/ TBStopTicker(c)

(* ---------------------------- leaky bucket ---------------------------- *)
\* mutant: one token leaks per tick whatever leakCount is
RemoveCountOne(lc, q) == IF Len(q) > 0 THEN 1 ELSE 0

\* startLeaking: removeCount := lb.leakCount, lowered to len(lb.queue)
RemoveCount(lc, q) == IF lc > Len(q) THEN Len(q) ELSE lc

\* startLeaking: lb.queue = lb.queue[removeCount:]
Leak(q, n) == SubSeq(q, n + 1, Len(q))

\* startLeaking: case <-ticker.C
LeakRecvTick ==
    /\ ~panicked
    /\ limiter = "leakyBucket"
    /\ bg = "select"
    /\ tickerC
    /\ tickerC' = FALSE
    /\ bg' = "lock"
    /\ UNCHANGED <<cfgVars, tbVars, lbVars, mu, tickerStopped, pc, op, ret, size,
                   ctxDone, panicked, ticks, granted, calls, stopReturned, afterStop>>

\* startLeaking: lb.mu.Lock()
LeakLock ==
    /\ ~panicked
    /\ limiter = "leakyBucket"
    /\ bg = "lock"
    /\ mu = FALSE
    /\ mu' = TRUE
    /\ bg' = "body"
    /\ UNCHANGED <<cfgVars, tbVars, lbVars, tickerC, tickerStopped, pc, op, ret, size,
                   ctxDone, panicked, ticks, granted, calls, stopReturned, afterStop>>

\* startLeaking: if lb.stopped { Unlock; return } (the deferred ticker.Stop() runs)
LeakSeesStopped ==
    /\ ~panicked
    /\ limiter = "leakyBucket"
    /\ bg = "body"
    /\ stopped
    /\ mu' = FALSE
    /\ bg' = "exited"
    /\ tickerStopped' = TRUE
    /\ UNCHANGED <<cfgVars, tbVars, lbVars, tickerC, pc, op, ret, size,
                   ctxDone, panicked, ticks, granted, calls, stopReturned, afterStop>>

\* mutant: the drain does not look at lb.stopped
LeakBodyUnchecked ==
    /\ ~panicked
    /\ limiter = "leakyBucket"
    /\ bg = "body"
    /\ queue' = Leak(queue, RemoveCount(leakCount, queue))
    /\ mu' = FALSE
    /\ ticks' = ticks + 1
    /\ bg' = "select"
    /\ UNCHANGED <<cfgVars, tbVars, stopCh, stopped, tickerC, tickerStopped, pc, op, ret,
                   size, ctxDone, panicked, granted, calls, stopReturned, afterStop>>

\* startLeaking: remove up to leakCount tokens, Unlock
LeakBody ==
    /\ ~panicked
    /\ limiter = "leakyBucket"
    /\ bg = "body"
    /\ ~stopped
    /\ queue' = Leak(queue, RemoveCount(leakCount, queue))
    /\ mu' = FALSE
    /\ ticks' = ticks + 1
    /\ bg' = "select"
    /\ UNCHANGED <<cfgVars, tbVars, stopCh, stopped, tickerC, tickerStopped, pc, op, ret,
                   size, ctxDone, panicked, granted, calls, stopReturned, afterStop>>

\* startLeaking: case <-lb.stopCh: return (the deferred ticker.Stop() runs)
LeakRecvStop ==
    /\ ~panicked
    /\ limiter = "leakyBucket"
    /\ bg = "select"
    /\ stopCh = "closed"
    /\ bg' = "exited"
    /\ tickerStopped' = TRUE
    /\ UNCHANGED <<cfgVars, tbVars, lbVars, mu, tickerC, pc, op, ret, size,
                   ctxDone, panicked, ticks, granted, calls, stopReturned, afterStop>>

\* mutant: Allow does not look at lb.stopped
AllowOkIgnoresStopped(q, cap, st) == Len(q) < cap

\* Allow: !lb.stopped and len(lb.queue) < lb.capacity
AllowOk(q, cap, st) == ~st /\ Len(q) < cap

\* Allow: the queue left by the call
AllowQueue(q, cap, st) == IF AllowOk(q, cap, st) THEN Append(q, "token") ELSE q

\* a caller invokes lb.Allow()
AllowCall(c) ==
    /\ limiter = "leakyBucket"
    /\ InvokeLock(c, "Allow", "Allow_Body")
    /\ UNCHANGED <<cfgVars, tbVars, lbVars, tickerC, tickerStopped, bg,
                   ctxDone, panicked, ticks, granted, stopReturned>>

\* Allow: the tests, the append, the deferred Unlock, return
Allow(c) ==
    /\ ~panicked
    /\ pc[c] = "Allow_Body"
    /\ queue' = AllowQueue(queue, capacity, stopped)
    /\ granted' = IF AllowOk(queue, capacity, stopped) THEN granted + 1 ELSE granted
    /\ mu' = FALSE
    /\ Return(c, IF AllowOk(queue, capacity, stopped) THEN "true" ELSE "false")
    /\ UNCHANGED <<cfgVars, tbVars, stopCh, stopped, tickerC, tickerStopped, bg, op, size,
                   ctxDone, panicked, ticks, calls, stopReturned, afterStop>>

\* a caller invokes lb.Stop()
LBStopCall(c) ==
    /\ limiter = "leakyBucket"
    /\ InvokeLock(c, "Stop", "LBStop_Body")
    /\ UNCHANGED <<cfgVars, tbVars, lbVars, tickerC, tickerStopped, bg,
                   ctxDone, panicked, ticks, granted, stopReturned>>

\* mutant: Stop closes the channel without the guard
StopClosesAlways(st) == TRUE

\* Stop: the guard !lb.stopped in front of close(lb.stopCh)
StopCloses(st) == ~st

\* Stop: if !lb.stopped { stopped = true; close(stopCh) }, deferred Unlock, return
LBStop(c) ==
    /\ ~panicked
    /\ pc[c] = "LBStop_Body"
    /\ stopped' = (stopped \/ StopCloses(stopped))
    /\ stopCh' = IF StopCloses(stopped) THEN CloseChan(stopCh) ELSE stopCh
    /\ panicked' = (StopCloses(stopped) /\ ClosePanics(stopCh))
    /\ mu' = FALSE
    /\ stopReturned' = TRUE
    /\ Return(c, "returned")
    /\ UNCHANGED <<cfgVars, tbVars, queue, tickerC, tickerStopped, bg, op, size,
                   ctxDone, ticks, granted, calls, afterStop>>

\* a caller invokes lb.CurrentSize()
CurrentSizeCall(c) ==
    /\ limiter = "leakyBucket"
    /\ InvokeLock(c, "CurrentSize", "CurrentSize_Body")
    /\ UNCHANGED <<cfgVars, tbVars, lbVars, tickerC, tickerStopped, bg,
                   ctxDone, panicked, ticks, granted, stopReturned>>

\* CurrentSize: return len(lb.queue), deferred Unlock
CurrentSize(c) ==
    /\ ~panicked
    /\ pc[c] = "CurrentSize_Body"
    /\ mu' = FALSE
    /\ Return(c, "int")
    /\ size' = [size EXCEPT ![c] = Len(queue)]
    /\ UNCHANGED <<cfgVars, tbVars, lbVars, tickerC, tickerStopped, bg, op,
                   ctxDone, panicked, ticks, granted, calls, stopReturned, afterStop>>

\* Capacity: return lb.capacity (no lock)
Capacity(c) ==
    /\ limiter = "leakyBucket"
    /\ ~panicked
    /\ pc[c] = "idle"
    /\ calls < MaxCalls
    /\ calls' = calls + 1
    /\ op' = [op EXCEPT ![c] = "Capacity"]
    /\ ret' = [ret EXCEPT ![c] = "int"]
    /\ size' = [size EXCEPT ![c] = capacity]
    /\ afterStop' = [afterStop EXCEPT ![c] = stopReturned]
    /\ UNCHANGED <<cfgVars, tbVars, lbVars, mu, tickerC, tickerStopped, bg, pc,
                   ctxDone, panicked, ticks, granted, stopReturned>>

LBNext ==
    \/ LeakRecvTick
    \/ LeakLock
    \/ LeakSeesStopped
    \/ LeakBody
    \/ LeakRecvStop
    \/ \E c \in Callers :
        \/ AllowCall(c)
        \/ Allow(c)
        \/ LBStopCall(c)
        \/ LBStop(c)
        \/ CurrentSizeCall(c)
        \/ CurrentSize(c)
        \/ Capacity(c)

Next ==
    \/ TickerFire
    \/ TBNext
    \/ LBNext

Spec == Init /\ [][Next]_vars

\* the background goroutine's steps
Driver ==
    \/ RefillRecvTick \/ RefillLock \/ RefillBody \/ RefillRecvDone
    \/ LeakRecvTick \/ LeakLock \/ LeakSeesStopped \/ LeakBody \/ LeakRecvStop

\* the steps of a call that is under way (its caller is scheduled, its poll
\* ticker fires); invoking an operation and cancelling a context are not forced
Running(c) ==
    \/ TryAcquire(c) \/ AcquireFirst(c) \/ AcquireCtxDone(c) \/ AcquirePollTick(c)
    \/ AcquireRetry(c) \/ TBStopTicker(c)
    \/ Allow(c) \/ LBStop(c) \/ CurrentSize(c)

\* Go schedules every runnable goroutine, sync.Mutex hands the lock to every
\* waiter eventually (starvation mode), and a select picks at random among its
\* ready cases, so a case that is ready again and again is taken
FairSpec ==
    /\ Spec
    /\ WF_vars(Driver)
    /\ SF_vars(RefillLock)
    /\ SF_vars(LeakLock)
    /\ \A c \in Callers :
        /\ WF_vars(Running(c))
        /\ SF_vars(AcquireRetryLock(c))
        /\ SF_vars(AcquireCtxDone(c))

\* FairSpec with a driver ticker that keeps firing (as long as the model lets it)
TickingSpec == FairSpec /\ WF_vars(TickerFire)

(* ------------------------- state of the bucket ------------------------ *)
\* the level of the bucket: tokens, resp. len(queue)
level == IF limiter = "TokenBucket" THEN tokens ELSE Len(queue)

\* callers inside a critical section
Holders ==
    {c \in Callers : pc[c] \in {"TryAcquire_Body", "Acquire_Body", "Acquire_RetryBody",
                                "Allow_Body", "LBStop_Body", "CurrentSize_Body"}}

TypeOK ==
    /\ limiter \in {"TokenBucket", "leakyBucket"}
    /\ capacity \in 0..MaxCapacity
    /\ leakCount \in 0..MaxLeakCount
    /\ tokens \in Int
    /\ Len(queue) \in Nat
    /\ done \in {"open", "closed"}
    /\ stopCh \in {"open", "closed"}
    /\ stopped \in BOOLEAN
    /\ mu \in BOOLEAN
    /\ bg \in {"select", "lock", "body", "exited"}
    /\ calls \in 0..MaxCalls
    /\ ticks \in 0..MaxTicks

(* ------------------------------ claims -------------------------------- *)
\* C1: in every reachable state of either bucket the level (tokens, resp.
\* len(queue)) is at least 0 and at most capacity.
C1_LevelWithinCapacity == 0 <= level /\ level <= capacity

\* C1 witness: a token bucket that was emptied by its callers, refilled by a
\* tick and stopped.
C1_Witness ==
    /\ limiter = "TokenBucket"
    /\ capacity = 1
    /\ granted = 1
    /\ ticks = 1
    /\ tokens = capacity
    /\ stopReturned

\* a step in which caller c runs the critical section of tb.TryAcquire()
TryAcquireStep(c) == pc[c] = "TryAcquire_Body" /\ pc'[c] = "idle"

\* C2: TryAcquire is one step that, when level > 0, takes exactly one token and
\* returns true, and otherwise returns false and leaves the level and the other
\* fields of the bucket as they were; once it holds the mutex it waits for
\* nothing (in a process that is alive).
C2_TryAcquireAtomic ==
    /\ [](\A c \in Callers :
            (pc[c] = "TryAcquire_Body" /\ ~panicked) => ENABLED TryAcquire(c))
    /\ [][\A c \in Callers : TryAcquireStep(c) =>
            IF tokens > 0
               THEN tokens' = tokens - 1 /\ ret'[c] = "true"
               ELSE /\ ret'[c] = "false"
                    /\ UNCHANGED <<tokens, capacity, done, tickerC, tickerStopped>>]_vars

\* C2 witness: one caller got the last token and another was refused on the
\* empty bucket.
C2_Witness ==
    /\ limiter = "TokenBucket"
    /\ tokens = 0
    /\ \E c, d \in Callers :
        /\ pc[c] = "idle" /\ op[c] = "TryAcquire" /\ ret[c] = "true"
        /\ pc[d] = "idle" /\ op[d] = "TryAcquire" /\ ret[d] = "false"

\* a step in which caller c runs the critical section of lb.Allow()
AllowStep(c) == pc[c] = "Allow_Body" /\ pc'[c] = "idle"

\* C3: Allow is one step that returns false on a closed bucket, otherwise adds
\* exactly one unit and returns true when level < capacity, otherwise returns
\* false; the level is unchanged in both false cases.
C3_AllowAtomic ==
    [][\A c \in Callers : AllowStep(c) =>
         IF stopped
            THEN ret'[c] = "false" /\ queue' = queue
            ELSE IF Len(queue) < capacity
                    THEN Len(queue') = Len(queue) + 1 /\ ret'[c] = "true"
                    ELSE ret'[c] = "false" /\ queue' = queue]_vars

\* C3 witness: an Allow was refused on a closed bucket that had room, after
\* another Allow had been admitted.
C3_Witness ==
    /\ limiter = "leakyBucket"
    /\ stopped
    /\ Len(queue) = 1
    /\ Len(queue) < capacity
    /\ \E c \in Callers : pc[c] = "idle" /\ op[c] = "Allow" /\ ret[c] = "false"

\* the level a constructor leaves
InitialLevel == IF limiter = "TokenBucket" THEN capacity ELSE 0

\* a step in which a TryAcquire (direct or made by Acquire) resp. an Allow is decided
AttemptStep(c) ==
    /\ pc[c] \in {"TryAcquire_Body", "Acquire_Body", "Acquire_RetryBody", "Allow_Body"}
    /\ pc'[c] # pc[c]

\* C4: a bucket nobody has called yet holds capacity tokens (token bucket) resp.
\* nothing (leaky bucket); as long as no tick was processed (and the leaky bucket
\* is not closed) an attempt succeeds exactly when fewer than capacity attempts
\* succeeded before it, so the first capacity attempts succeed and the next fails.
C4_FreshBucket ==
    /\ [](calls = 0 => level = InitialLevel)
    /\ [][\A c \in Callers : (AttemptStep(c) /\ ticks = 0 /\ ~stopped) =>
            ((granted' = granted + 1) <=> (granted < capacity))]_vars

\* C4 witness: a token bucket of capacity 2 on which, without a tick, two
\* TryAcquire succeeded and the third was refused.
C4_Witness ==
    /\ limiter = "TokenBucket"
    /\ capacity = 2
    /\ ticks = 0
    /\ calls = 3
    /\ granted = 2
    /\ \E c \in Callers : pc[c] = "idle" /\ op[c] = "TryAcquire" /\ ret[c] = "false"
    /\ \A c \in Callers : pc[c] = "idle" /\ op[c] = "TryAcquire"

\* a step in which refill processes a tick
RefillStep == limiter = "TokenBucket" /\ bg = "body" /\ bg' = "select"

\* C5: a refill tick changes the level to min(level + 1, capacity), and on a
\* bucket with capacity >= 1 it leaves a token that a TryAcquire will get.
C5_RefillAddsOne ==
    [][RefillStep =>
         /\ tokens' = Min(tokens + 1, capacity)
         /\ (capacity >= 1 => TryAcquireOk(tokens'))]_vars

\* C5 witness: the bucket was emptied, a tick was processed and a TryAcquire
\* then got the refilled token.
C5_Witness ==
    /\ limiter = "TokenBucket"
    /\ ticks = 1
    /\ granted = capacity + 1
    /\ tokens = 0
    /\ \E c \in Callers : pc[c] = "idle" /\ op[c] = "TryAcquire" /\ ret[c] = "true"

\* a step in which startLeaking processes a tick on a bucket that is not closed
LeakStep == limiter = "leakyBucket" /\ bg = "body" /\ bg' = "select"

\* C6: with leakCount >= 1, a drain tick on a bucket that is not closed removes
\* exactly min(leakCount, level) units, never going below 0, and on a full
\* bucket with capacity >= 1 it makes room for the next Allow.
C6_DrainRemovesStep ==
    [][(LeakStep /\ leakCount >= 1) =>
         /\ Len(queue') = Len(queue) - Min(leakCount, Len(queue))
         /\ Len(queue') >= 0
         /\ ((capacity >= 1 /\ Len(queue) = capacity) =>
                AllowOk(queue', capacity, stopped'))]_vars

\* C6 witness: a full bucket of capacity 2 was drained by a tick of step 2 and
\* the next Allow was admitted.
C6_Witness ==
    /\ limiter = "leakyBucket"
    /\ capacity = 2
    /\ leakCount = 2
    /\ ticks = 1
    /\ granted = 3
    /\ Len(queue) = 1
    /\ \E c \in Callers : pc[c] = "idle" /\ op[c] = "Allow" /\ ret[c] = "true"

\* C7: Stop of the token bucket can be called twice or more, one call after
\* the other or concurrently, without a panic (the done channel is closed at
\* most once).
C7_TokenStopIdempotent == limiter = "TokenBucket" => ~panicked

\* C8: Stop of the leaky bucket can be called any number of times, concurrently
\* with Stop, Allow, CurrentSize and a drain tick: nothing panics, stopCh is
\* closed exactly when stopped is set, the mutex is held by exactly one critical
\* section whenever it is locked, and that critical section can always finish.
C8_LeakyStopIdempotent ==
    limiter = "leakyBucket" =>
        /\ ~panicked
        /\ (stopCh = "closed") <=> stopped
        /\ stopReturned => stopped
        /\ Cardinality(Holders) + (IF bg = "body" THEN 1 ELSE 0) = (IF mu THEN 1 ELSE 0)
        /\ \A c \in Holders : ENABLED (Allow(c) \/ LBStop(c) \/ CurrentSize(c))
        /\ bg = "body" => ENABLED (LeakBody \/ LeakSeesStopped)

\* C8 witness: after one Stop has returned, a second Stop is inside its critical
\* section while a drain tick received earlier waits for the mutex.
C8_Witness ==
    /\ limiter = "leakyBucket"
    /\ stopCh = "closed"
    /\ bg = "lock"
    /\ \E c, d \in Callers :
        /\ pc[c] = "idle" /\ op[c] = "Stop" /\ ret[c] = "returned"
        /\ pc[d] = "LBStop_Body"

\* C9: on a token bucket, a TryAcquire invoked after Stop has returned returns
\* false.
C9_TryAcquireAfterStop ==
    \A c \in Callers :
        (limiter = "TokenBucket" /\ op[c] = "TryAcquire" /\ afterStop[c] /\ pc[c] = "idle")
            => ret[c] = "false"

\* C10: on a token bucket, an Acquire invoked after Stop has returned, or
\* waiting in its select when Stop has returned, ends by returning the
\* cancellation error, whether or not its context is ever cancelled (unless the
\* process has crashed meanwhile).
C10_AcquireAfterStopFails ==
    \A c \in Callers :
        [](( /\ limiter = "TokenBucket"
             /\ op[c] = "Acquire"
             /\ pc[c] # "idle"
             /\ (afterStop[c] \/ (stopReturned /\ pc[c] = "Acquire_Select")) )
            => <>(\/ pc[c] = "idle" /\ op[c] = "Acquire" /\ ret[c] = "ErrContextTimeout"
                  \/ panicked))

\* C11: on a leaky bucket, an Allow invoked after a Stop has returned returns
\* false, whatever the level is.
C11_AllowAfterStop ==
    \A c \in Callers :
        (limiter = "leakyBucket" /\ op[c] = "Allow" /\ afterStop[c] /\ pc[c] = "idle")
            => ret[c] = "false"

\* C11 witness: an Allow invoked after Stop returned was refused on an empty
\* bucket with room for two.
C11_Witness ==
    /\ limiter = "leakyBucket"
    /\ capacity = 2
    /\ Len(queue) = 0
    /\ \E c \in Callers :
        pc[c] = "idle" /\ op[c] = "Allow" /\ afterStop[c] /\ ret[c] = "false"

\* an Acquire of caller c is under way
InAcquire(c) == limiter = "TokenBucket" /\ op[c] = "Acquire" /\ pc[c] # "idle"

\* C12: an Acquire whose context is cancelled (before the call or during it)
\* while the bucket is empty returns ErrContextTimeout, never nil, and it does
\* return unless a unit becomes available; standing at its select with a
\* cancelled context it can return at once, without a tick.
C12_CancelledAcquireReturns ==
    /\ [](\A c \in Callers :
            (pc[c] = "Acquire_Select" /\ ctxDone[c] /\ ~panicked)
                => ENABLED AcquireCtxDone(c))
    /\ [][\A c \in Callers :
            (InAcquire(c) /\ ctxDone[c] /\ tokens = 0 /\ pc'[c] = "idle")
                => ret'[c] = "ErrContextTimeout"]_vars
    /\ \A c \in Callers :
         []((InAcquire(c) /\ ctxDone[c] /\ tokens = 0)
            => <>(\/ pc[c] = "idle" /\ op[c] = "Acquire" /\ ret[c] = "ErrContextTimeout"
                  \/ tokens > 0
                  \/ panicked))

\* C12 witness: an Acquire on the emptied bucket of capacity 1 has returned
\* ErrContextTimeout before any tick was processed.
C12_Witness ==
    /\ limiter = "TokenBucket"
    /\ capacity = 1
    /\ tokens = 0
    /\ ticks = 0
    /\ \E c \in Callers :
        pc[c] = "idle" /\ op[c] = "Acquire" /\ ret[c] = "ErrContextTimeout"

\* another caller is consuming tokens while c's Acquire runs
Competitor(c) ==
    \E d \in Callers \ {c} : op[d] \in {"TryAcquire", "Acquire"} /\ pc[d] # "idle"

\* C13: on a token bucket with capacity >= 1 that is not stopped, an Acquire
\* whose context is not cancelled and that has no competing consumer returns
\* nil, provided a token is there or a refill tick is still to come; when a
\* token is there at its first attempt it returns nil in that very step.
C13_AcquireEventuallySucceeds ==
    /\ [][\A c \in Callers :
            (pc[c] = "Acquire_Body" /\ tokens > 0 /\ pc'[c] # pc[c])
                => (pc'[c] = "idle" /\ ret'[c] = "nil")]_vars
    /\ \A c \in Callers :
         []((InAcquire(c) /\ capacity >= 1 /\ (tokens > 0 \/ ticks < MaxTicks))
            => <>(\/ pc[c] = "idle" /\ op[c] = "Acquire" /\ ret[c] = "nil"
                  \/ ctxDone[c]
                  \/ done = "closed"
                  \/ Competitor(c)))

\* C13 witness: the only caller there ever was emptied the bucket of capacity 1
\* and then got nil from Acquire thanks to the one refill tick.
C13_Witness ==
    /\ limiter = "TokenBucket"
    /\ capacity = 1
    /\ ticks = 1
    /\ granted = 2
    /\ calls = 2
    /\ done = "open"
    /\ \E c \in Callers :
        /\ pc[c] = "idle" /\ op[c] = "Acquire" /\ ret[c] = "nil"
        /\ \A d \in Callers \ {c} : op[d] = "none"

\* C14: on a token bucket the number of successful acquisitions (TryAcquire
\* returning true, Acquire returning nil) never exceeds capacity plus the number
\* of refill ticks processed so far.
C14_RateBound == limiter = "TokenBucket" => granted <= capacity + ticks

\* C14 witness: the bound is met: a bucket of capacity 2 has granted three
\* acquisitions after one refill tick.
C14_Witness ==
    /\ limiter = "TokenBucket"
    /\ capacity = 2
    /\ ticks = 1
    /\ granted = 3

\* C15: on a token bucket, once Stop has returned the refill goroutine never
\* changes the level again, even when a tick was pending when Stop was called.
C15_NoRefillAfterStop ==
    [][(stopReturned /\ RefillStep) => tokens' = tokens]_vars

\* C16: on a leaky bucket, once stopped is set it stays set and the level never
\* changes again (no drain tick removes units, no Allow adds one); CurrentSize
\* returns the level of the moment and Capacity the capacity, which never changes.
C16_ClosedBucketFrozen ==
    /\ [](\A c \in Callers :
            (limiter = "leakyBucket" /\ op[c] = "Capacity" /\ ret[c] = "int")
                => size[c] = capacity)
    /\ [][/\ capacity' = capacity
          /\ (limiter = "leakyBucket" /\ stopped) => (stopped' /\ queue' = queue)
          /\ \A c \in Callers :
                (pc[c] = "CurrentSize_Body" /\ pc'[c] = "idle")
                    => (ret'[c] = "int" /\ size'[c] = Len(queue) /\ queue' = queue)]_vars

\* C16 witness: a bucket holding one unit was stopped, its goroutine has exited
\* without draining it and a CurrentSize invoked after Stop has returned that
\* one unit.
C16_Witness ==
    /\ limiter = "leakyBucket"
    /\ stopped
    /\ leakCount >= 1
    /\ Len(queue) = 1
    /\ bg = "exited"
    /\ ticks = 0
    /\ ~tickerC
    /\ tickerStopped
    /\ \E c \in Callers :
        /\ pc[c] = "idle" /\ op[c] = "CurrentSize" /\ afterStop[c]
        /\ ret[c] = "int" /\ size[c] = 1

\* an Acquire of caller c has failed its first attempt and is in its wait loop
Waiting(c) ==
    /\ limiter = "TokenBucket"
    /\ pc[c] \in {"Acquire_Select", "Acquire_RetryLock", "Acquire_RetryBody"}

\* C17: a waiting Acquire never misses a cancellation: when its context is
\* cancelled while no unit is available, that call does not return nil (calls
\* numbers the invocations, so as long as it is unchanged the call that returns
\* is the one that was waiting).
C17_CancellationNotMissed ==
    \A c \in Callers, n \in 0..MaxCalls :
        []((Waiting(c) /\ ctxDone[c] /\ tokens = 0 /\ calls = n)
            => [](calls = n => ret[c] # "nil"))

\* the callers whose last operation is a completed o
Completed(o) == {c \in Callers : op[c] = o /\ pc[c] = "idle" /\ ret[c] # "none"}

\* every operation invoked so far is one o per caller, and all have returned
OneRound(o) == calls = Cardinality(Completed(o))

\* the operation that takes a unit (token bucket) resp. a slot (leaky bucket)
Attempt == IF limiter = "TokenBucket" THEN "TryAcquire" ELSE "Allow"

\* C18: the critical sections on the level are serialized: the mutex is locked
\* exactly when one critical section is running; no grant and no tick is lost
\* (token bucket: capacity <= tokens + granted <= capacity + ticks; leaky bucket:
\* granted - leakCount * ticks <= len(queue) <= granted); and when k callers
\* have each made one TryAcquire (resp. Allow) on the fresh bucket with no tick
\* processed, exactly min(k, capacity) of them got true.
C18_Serialized ==
    /\ Cardinality(Holders) + (IF bg = "body" THEN 1 ELSE 0) = (IF mu THEN 1 ELSE 0)
    /\ limiter = "TokenBucket" =>
          (capacity <= tokens + granted /\ tokens + granted <= capacity + ticks)
    /\ limiter = "leakyBucket" =>
          (granted - leakCount * ticks <= Len(queue) /\ Len(queue) <= granted)
    /\ (OneRound(Attempt) /\ ticks = 0) =>
          Cardinality({c \in Completed(Attempt) : ret[c] = "true"}) = Min(calls, capacity)

\* C18 witness: two callers raced for the only token of a fresh bucket; one got
\* true and the other false.
C18_Witness ==
    /\ limiter = "TokenBucket"
    /\ capacity = 1
    /\ ticks = 0
    /\ calls = 2
    /\ OneRound("TryAcquire")
    /\ \E c, d \in Callers : ret[c] = "true" /\ ret[d] = "false"

\* an attempt of Acquire (the first or a retry) fails and the call goes to wait
FailedAttempt(c) ==
    /\ InAcquire(c)
    /\ pc[c] \in {"Acquire_Body", "Acquire_RetryBody"}
    /\ pc'[c] = "Acquire_Select"

\* C19: an Acquire that found the bucket empty returns nil only from a retry
\* that its own poll tick triggered and that finds a token, never while the
\* bucket has stayed empty: a failed attempt leaves tokens = 0; a waiting call
\* returns nil only in the retry's TryAcquire, with a token present and a tick
\* processed; the retry is entered only from the select through the poll tick;
\* tokens grow only in the refill goroutine's step, which counts as a processed
\* tick; and a call that waits on the empty bucket at n processed ticks does
\* not return nil while the count is still n.
C19_SuccessOnlyAfterRefill ==
    /\ [][\A c \in Callers : FailedAttempt(c) => (tokens = 0 /\ tokens' = 0)]_vars
    /\ [][\A c \in Callers : (Waiting(c) /\ ret'[c] = "nil") =>
             (pc[c] = "Acquire_RetryBody" /\ tokens > 0 /\ ticks >= 1
                /\ tokens' = tokens - 1)]_vars
    /\ [][\A c \in Callers :
             /\ (InAcquire(c) /\ pc'[c] = "Acquire_RetryBody" /\ pc[c] # pc'[c])
                   => pc[c] = "Acquire_RetryLock"
             /\ (InAcquire(c) /\ pc'[c] = "Acquire_RetryLock" /\ pc[c] # pc'[c])
                   => pc[c] = "Acquire_Select"]_vars
    /\ [][(limiter = "TokenBucket" /\ tokens' > tokens) =>
             (RefillStep /\ ticks' = ticks + 1 /\ tokens' = tokens + 1)]_vars
    /\ \A c \in Callers, n \in 0..MaxTicks :
          []((InAcquire(c) /\ pc[c] = "Acquire_Select" /\ tokens = 0 /\ ticks = n)
                => [](ticks = n => ret[c] # "nil"))

\* C19 witness: the bucket of capacity 1 was emptied, an Acquire failed its
\* first attempt and waited, the refill goroutine processed a tick, and the
\* call is in the retry that its poll tick triggered, about to take the token.
C19_Witness ==
    /\ limiter = "TokenBucket"
    /\ capacity = 1
    /\ ticks = 1
    /\ tokens = 1
    /\ granted = 1
    /\ \E c \in Callers : InAcquire(c) /\ pc[c] = "Acquire_RetryBody"

\* C20: once a Stop has returned, the background goroutine (refill, resp.
\* startLeaking) eventually returns, whatever it was doing when Stop ran
\* (waiting in the select, holding a received tick, waiting for or holding the
\* mutex); a panic of a later Stop ends the whole process and the goroutine
\* with it.
C20_BackgroundTerminates ==
    [](stopReturned => <>(bg = "exited" \/ panicked))

\* C20 witness: Stop of a token bucket has returned, the refill goroutine has
\* processed a tick and has returned, and the process has not panicked.
C20_Witness ==
    /\ limiter = "TokenBucket"
    /\ stopReturned
    /\ ~panicked
    /\ ticks = 1
    /\ bg = "exited"

\* a step of caller c inside Acquire (from the invocation to the return)
AcquireOwnStep(c) ==
    /\ limiter = "TokenBucket"
    /\ pc'[c] # pc[c]
    /\ op'[c] = "Acquire"

\* C21: Acquire changes the bucket in exactly one of its steps: the step that
\* returns nil takes exactly one token (and counts one grant); every other step
\* of the call (the invocation, a failed first attempt, the poll tick, the lock
\* of a retry, a failed retry, the return of ErrContextTimeout) leaves tokens
\* and the count of grants as they were, so a call that returns the error has
\* consumed nothing, however many retries it made.
C21_AcquireExactEffect ==
    [][\A c \in Callers : AcquireOwnStep(c) =>
          IF ret'[c] = "nil"
             THEN tokens > 0 /\ tokens' = tokens - 1 /\ granted' = granted + 1
             ELSE tokens' = tokens /\ granted' = granted]_vars

\* C21 witness: on a bucket of capacity 1 one Acquire has returned nil with the
\* only token and another, after failing, has returned ErrContextTimeout; one
\* grant is counted and the bucket is empty.
C21_Witness ==
    /\ limiter = "TokenBucket"
    /\ capacity = 1
    /\ ticks = 0
    /\ tokens = 0
    /\ granted = 1
    /\ \E c, d \in Callers :
          /\ op[c] = "Acquire" /\ pc[c] = "idle" /\ ret[c] = "nil"
          /\ op[d] = "Acquire" /\ pc[d] = "idle" /\ ret[d] = "ErrContextTimeout"

\* C22: a bucket constructed with capacity 0 always rejects: its level stays 0
\* (refill ticks add nothing), nothing is ever granted, no TryAcquire and no
\* Allow has returned true, and no Acquire has returned nil.
C22_ZeroCapacityRejects ==
    capacity = 0 =>
        /\ level = 0
        /\ granted = 0
        /\ \A c \in Callers :
              /\ op[c] \in {"TryAcquire", "Allow"} => ret[c] # "true"
              /\ op[c] = "Acquire" => ret[c] # "nil"

\* C22 witness: a token bucket of capacity 0 has processed a refill tick and a
\* TryAcquire has returned false.
C22_Witness ==
    /\ limiter = "TokenBucket"
    /\ capacity = 0
    /\ ticks = 1
    /\ \E c \in Callers : op[c] = "TryAcquire" /\ pc[c] = "idle" /\ ret[c] = "false"

=============================================================================
